---------------------------- MODULE Spec2Model ----------------------------
(***************************************************************************)
(* Store-building pipeline of the rainconfig module                        *)
(* (src/src/cli/rainconfig.rs): read_bytecode, read_meta, read_deployer,   *)
(* read_dotrain_files, read_included_files, process, build_store and       *)
(* force_build_store.                                                      *)
(*                                                                         *)
(* Conventions.  A byte string (Vec<u8>, String, file content) is a        *)
(* sequence of byte values 0..255; text is the sequence of its ASCII       *)
(* codes.  Option<T>: None is <<>>, Some(v) is <<v>>.  anyhow::Result<T>:  *)
(* Ok(v) and Err(e) below.                                                 *)
(***************************************************************************)
EXTENDS Integers, Sequences, FiniteSets, TLC

VARIABLES
    fn,         \* which operation the current run applies
    arg,        \* the operation's input (artifact, deployer config, directory)
    ret,        \* the operation's result, Pending until it has returned
    force,      \* the `force` flag handed to read_dotrain_files / process
    keccak,     \* the digest function keccak256, a black box fixed per run
    config,     \* the rainconfig items the loops of process() have visited
    pc,         \* position of build_store / force_build_store
    dotrains,   \* ProcessType.0
    metas,      \* ProcessType.1
    deployers,  \* ProcessType.2
    store,      \* the Store: <<>> before Store::default(), else <<calls>>
    result      \* what build_store / force_build_store returned

vars == <<fn, arg, ret, force, keccak, config, pc, dotrains, metas, deployers,
          store, result>>

---------------------------------------------------------------------------
(* Bounds of the model *)

\* longest hex text enumerated for an artifact's bytecode fields
MaxStrLen == 4

\* most directory entries (files, directories, failed entries) under the scanned roots
MaxNodes == 4

\* most items (include paths, meta entries, deployers) of one rainconfig
MaxItems == 4

---------------------------------------------------------------------------
(* Option and Result *)

None == <<>>
Some(v) == <<v>>
IsSome(o) == Len(o) = 1
IsNone(o) == Len(o) = 0

Ok(v) == [ok |-> TRUE, val |-> v]
Err(e) == [ok |-> FALSE, err |-> e]

Pending == [ok |-> FALSE, err |-> [msg |-> "pending"]]

---------------------------------------------------------------------------
(* hex::decode *)

Ch0 == 48
ChA == 97
ChX == 120

IsHexChar(c) == (c >= 48 /\ c <= 57) \/ (c >= 97 /\ c <= 102) \/ (c >= 65 /\ c <= 70)

HexVal(c) ==
    IF c >= 48 /\ c <= 57 THEN c - 48
    ELSE IF c >= 97 /\ c <= 102 THEN c - 87
    ELSE c - 55

\* an optional "0x" prefix is dropped before decoding
StripPrefix(s) ==
    IF Len(s) >= 2 /\ s[1] = Ch0 /\ s[2] = ChX THEN SubSeq(s, 3, Len(s)) ELSE s

\* positions of t that hold no hex digit
InvalidAt(t) == {i \in 1..Len(t) : ~IsHexChar(t[i])}

InvalidHexCharacter(t, i) == Err([msg |-> "InvalidHexCharacter", c |-> t[i], index |-> i - 1])

\* the digits of t, two to a byte: odd length is refused first, then the first
\* invalid character
DecodeDigits(t) ==
    IF Len(t) % 2 = 1 THEN Err([msg |-> "OddLength"])
    ELSE IF InvalidAt(t) # {}
         THEN InvalidHexCharacter(t, CHOOSE i \in InvalidAt(t) : \A j \in InvalidAt(t) : i <= j)
    ELSE Ok([i \in 1..(Len(t) \div 2) |-> 16 * HexVal(t[2 * i - 1]) + HexVal(t[2 * i])])

\* hex::decode
HexDecode(s) == DecodeDigits(StripPrefix(s))

\* format!("{:?} at {:?}", e, path)
ErrAt(e, path) == [msg |-> "at", cause |-> e, path |-> path]

---------------------------------------------------------------------------
(* read_bytecode *)

\* A JSON member json[..]["object"]: a string, a value that is no string, or missing
Missing == [json |-> "missing"]
NonString == [json |-> "nonstring"]
Str(s) == [json |-> "string", s |-> s]
is_string(v) == v.json = "string"

\* An artifact file: unreadable, not JSON, or an object with the two members
Unreadable == [file |-> "unreadable"]
BadJson == [file |-> "badjson"]
Artifact(b, d) == [file |-> "json", bytecode |-> b, deployedBytecode |-> d]

\* ArtifactBytecode(creation, deployed)
ArtifactBytecode(b, d) == <<b, d>>

NoBytecodeErr(path) == [msg |-> "artifact doesn't contain bytecode/deployed bytecode", path |-> path]

\* mutant of both_fields: the creation field's decode error is not recorded
both_fields_blank_err(path, rb, rd) ==
    IF ~rb.ok \/ ~rd.ok
    THEN IF rd.ok THEN Err([msg |-> ""]) ELSE Err(ErrAt(rd.err, path))
    ELSE Ok(ArtifactBytecode(Some(rb.val), Some(rd.val)))

\* both members are strings; rb, rd are what hex::decode made of them.  err starts
\* as anyhow!(""), and each failed decode overwrites it
both_fields(path, rb, rd) ==
    IF ~rb.ok \/ ~rd.ok
    THEN IF ~rd.ok THEN Err(ErrAt(rd.err, path))
         ELSE IF ~rb.ok THEN Err(ErrAt(rb.err, path))
         ELSE Err([msg |-> ""])
    ELSE Ok(ArtifactBytecode(Some(rb.val), Some(rd.val)))

\* only deployedBytecode.object is a string
only_deployed(path, rd) ==
    IF rd.ok THEN Ok(ArtifactBytecode(None, Some(rd.val))) ELSE Err(ErrAt(rd.err, path))

\* only bytecode.object is a string
only_creation(path, rb) ==
    IF rb.ok THEN Ok(ArtifactBytecode(Some(rb.val), None)) ELSE Err(ErrAt(rb.err, path))

read_bytecode(path, a) ==
    IF a.file = "unreadable" THEN Err([msg |-> "io", path |-> path])
    ELSE IF a.file = "badjson" THEN Err([msg |-> "json", path |-> path])
    ELSE IF is_string(a.bytecode) /\ is_string(a.deployedBytecode)
    THEN both_fields(path, HexDecode(a.bytecode.s), HexDecode(a.deployedBytecode.s))
    ELSE IF ~is_string(a.bytecode) /\ is_string(a.deployedBytecode)
    THEN only_deployed(path, HexDecode(a.deployedBytecode.s))
    ELSE IF is_string(a.bytecode) /\ ~is_string(a.deployedBytecode)
    THEN only_creation(path, HexDecode(a.bytecode.s))
    ELSE Err(NoBytecodeErr(path))

---------------------------------------------------------------------------
(* keccak256 and the meta envelope hash *)

\* keccak256 yields 32 bytes
DigestLen == 32

DigestOf(c) == [i \in 1..DigestLen |-> c]

\* The digests the black box may return in the model: one holds bytes that are no
\* ASCII hex digit, one happens to hold only the ASCII code of 'a'.
Digests == {DigestOf(197), DigestOf(ChA)}

\* the byte strings the model's meta files decode to
Payloads == {<<10>>, <<160>>}

\* keccak256 is a function, and no two payloads of the model collide
KeccakFns == {h \in [Payloads -> Digests] : \A p, q \in Payloads : h[p] = h[q] => p = q}

\* RainMetaDocumentV1Item { payload, magic, content_type, content_encoding,
\* content_language }.hash(false): the digest of the item's encoded form, kept
\* symbolic (one value per item)
MetaItemHash(payload) ==
    [hashOf |-> [payload |-> payload,
                 magic |-> "ExpressionDeployerV2BytecodeV1",
                 content_type |-> "OctetStream",
                 content_encoding |-> "None",
                 content_language |-> "None"]]

---------------------------------------------------------------------------
(* read_meta *)

\* A file on disk: unreadable, or its bytes
FileBytes(data) == [file |-> "bytes", data |-> data]

\* RainConfigMetaType
Binary(f) == [type |-> "binary", file |-> f]
Hex(f) == [type |-> "hex", file |-> f]

\* read_to_string refuses content that is not UTF-8 (here: any byte above 127)
IsUtf8(data) == \A i \in 1..Len(data) : data[i] < 128

IoErr == [msg |-> "io"]

\* what read_meta leaves: its Result and the accumulator
MetaOut(res, acc) == [res |-> res, metas |-> acc]

\* metas.push((keccak256(&data).0.to_vec(), data))
push_meta(h, acc, data) == MetaOut(Ok(<<>>), Append(acc, <<h[data], data>>))

\* Err(e) => if !force { return the error }; then Ok(())
skip_or_fail(e, acc, frc) == MetaOut(IF ~frc THEN Err(e) ELSE Ok(<<>>), acc)

\* match hex::decode(hex_string)
decoded_meta(h, r, acc, frc) ==
    IF r.ok THEN push_meta(h, acc, r.val)
    ELSE skip_or_fail(ErrAt(r.err, "hex_meta_path"), acc, frc)

\* read_meta(meta, &mut metas, force)
read_meta(h, meta, acc, frc) ==
    IF meta.type = "binary"
    THEN IF meta.file.file = "bytes" THEN push_meta(h, acc, meta.file.data)
         ELSE skip_or_fail(IoErr, acc, frc)
    ELSE IF meta.file.file = "bytes" /\ IsUtf8(meta.file.data)
         THEN decoded_meta(h, HexDecode(meta.file.data), acc, frc)
         ELSE skip_or_fail(IoErr, acc, frc)

---------------------------------------------------------------------------
(* read_deployer *)

\* DeployerResponse
DeployerResponse(mh, mb, bc, p, s, i, bmh, tx) ==
    [meta_hash |-> mh, meta_bytes |-> mb, bytecode |-> bc, parser |-> p, store |-> s,
     interpreter |-> i, bytecode_meta_hash |-> bmh, tx_hash |-> tx]

\* <ArtifactBytecode>.0.ok_or(anyhow!("could not read <name> deployed bytecode at <path>"))
first_or_err(name, r) ==
    IF ~r.ok THEN r
    ELSE IF IsSome(r.val[1]) THEN Ok(r.val[1][1])
    ELSE Err([msg |-> "could not read deployed bytecode", path |-> name])

\* read_bytecode(&deployer.<name>)?.0.ok_or(..)?
AuxBytecode(name, a) == first_or_err(name, read_bytecode(name, a))

\* mutant of assemble: construction meta that did not load leaves an empty meta
\* instead of failing the deployer
assemble_any_meta(m, exp, par, sto, int, tx) ==
    IF ~exp.ok THEN exp
    ELSE IF IsNone(exp.val[1]) THEN Err([msg |-> "could not find ExpressionDeployer bytecode!"])
    ELSE IF IsNone(exp.val[2])
         THEN Err([msg |-> "could not find ExpressionDeployer deployed bytecode!"])
    ELSE IF ~par.ok THEN par
    ELSE IF ~sto.ok THEN sto
    ELSE IF ~int.ok THEN int
    ELSE IF ~tx.ok THEN tx
    ELSE IF m.res.ok /\ Len(m.metas) = 1
    THEN Ok(DeployerResponse(m.metas[1][1], m.metas[1][2], exp.val[1][1], par.val, sto.val,
                             int.val, MetaItemHash(exp.val[2][1]), tx.val))
    ELSE Ok(DeployerResponse(<<>>, <<>>, exp.val[1][1], par.val, sto.val,
                             int.val, MetaItemHash(exp.val[2][1]), tx.val))

\* the body of read_deployer over what its reads returned, in the order it uses
\* them; each ? returns the first error met
assemble(m, exp, par, sto, int, tx) ==
    IF ~m.res.ok THEN m.res
    ELSE IF Len(m.metas) # 1 THEN Err([msg |-> "could not reaed construction meta!"])
    ELSE IF ~exp.ok THEN exp
    ELSE IF IsNone(exp.val[1]) THEN Err([msg |-> "could not find ExpressionDeployer bytecode!"])
    ELSE IF IsNone(exp.val[2])
         THEN Err([msg |-> "could not find ExpressionDeployer deployed bytecode!"])
    ELSE IF ~par.ok THEN par
    ELSE IF ~sto.ok THEN sto
    ELSE IF ~int.ok THEN int
    ELSE IF ~tx.ok THEN tx
    ELSE Ok(DeployerResponse(m.metas[1][1], m.metas[1][2], exp.val[1][1], par.val, sto.val,
                             int.val, MetaItemHash(exp.val[2][1]), tx.val))

\* read_deployer(hash, deployer)
read_deployer(h, hash, deployer) ==
    assemble(read_meta(h, deployer.construction_meta, <<>>, FALSE),
             read_bytecode("expression_deployer", deployer.expression_deployer),
             AuxBytecode("parser", deployer.parser),
             AuxBytecode("store", deployer.store),
             AuxBytecode("interpreter", deployer.interpreter),
             HexDecode(hash))

---------------------------------------------------------------------------
(* read_dotrain_files and read_included_files *)

\* What read_dir yields for one entry: an Err, or a path that is a directory, a
\* file, or neither.  A path is the sequence of entry positions leading to it.
EntryErr == [kind |-> "err"]
Other == [kind |-> "other"]
File(ext, readable, utf8) == [kind |-> "file", ext |-> ext, readable |-> readable, utf8 |-> utf8]
Dir(entries) == [kind |-> "dir", open |-> TRUE, entries |-> entries]
DirUnopenable == [kind |-> "dir", open |-> FALSE, entries |-> <<>>]

\* (PathBuf, String): the file's path, whether path.to_str() is Some, its text
Dotrain(path, node) == [path |-> path, utf8 |-> node.utf8, text |-> "rain text"]

RECURSIVE read_dotrain_files(_, _, _), scan_entries(_, _, _, _, _), after_subdir(_, _, _, _, _, _)

\* the loop over read_dir(path)?: entry i onwards, files_contents so far in acc
scan_entries(path, entries, i, acc, frc) ==
    IF i > Len(entries) THEN Ok(acc)
    ELSE IF entries[i].kind = "err" THEN Err(IoErr)
    ELSE IF entries[i].kind = "dir"
    THEN after_subdir(path, entries, i, acc, frc,
                      read_dotrain_files(Append(path, i), entries[i], frc))
    ELSE IF entries[i].kind = "file" /\ entries[i].ext = "rain"
    THEN IF entries[i].readable
         THEN scan_entries(path, entries, i + 1,
                           Append(acc, Dotrain(Append(path, i), entries[i])), frc)
         ELSE IF ~frc THEN Err(IoErr)
         ELSE scan_entries(path, entries, i + 1, acc, frc)
    ELSE scan_entries(path, entries, i + 1, acc, frc)

\* mutant of after_subdir: under force a failing subdirectory ends the loop
after_subdir_stops(path, entries, i, acc, frc, r) ==
    IF r.ok THEN scan_entries(path, entries, i + 1, acc \o r.val, frc)
    ELSE IF ~frc THEN r
    ELSE Ok(acc)

\* match read_dotrain_files(&dir, force): r is what the recursive call returned
after_subdir(path, entries, i, acc, frc, r) ==
    IF r.ok THEN scan_entries(path, entries, i + 1, acc \o r.val, frc)
    ELSE IF ~frc THEN r
    ELSE scan_entries(path, entries, i + 1, acc, frc)

\* read_dir fails on a path that cannot be opened as a directory
read_dotrain_files(path, node, frc) ==
    IF node.kind # "dir" \/ ~node.open THEN Err(IoErr)
    ELSE scan_entries(path, node.entries, 1, <<>>, frc)

RECURSIVE included_from(_, _, _, _), after_include(_, _, _, _, _)

\* the loop of read_included_files over self.include
included_from(include, i, acc, frc) ==
    IF i > Len(include) THEN Ok(acc)
    ELSE after_include(include, i, acc, frc, read_dotrain_files(<<i>>, include[i], frc))

\* match read_dotrain_files(included_dir, force)
after_include(include, i, acc, frc, r) ==
    IF r.ok THEN included_from(include, i + 1, acc \o r.val, frc)
    ELSE IF ~frc THEN r
    ELSE included_from(include, i + 1, acc, frc)

read_included_files(include, frc) == included_from(include, 1, <<>>, frc)

---------------------------------------------------------------------------
(* Inputs of the bytecode reader *)

HexAlphabet == {Ch0, ChA, ChX}

RECURSIVE StringsUpTo(_)
StringsUpTo(n) ==
    IF n = 0 THEN {<<>>}
    ELSE LET shorter == StringsUpTo(n - 1)
         IN  shorter \cup {Append(s, c) : s \in {t \in shorter : Len(t) = n - 1}, c \in HexAlphabet}

HexTexts == StringsUpTo(MaxStrLen)
JsonMembers == {Missing, NonString} \cup {Str(s) : s \in HexTexts}

ArtifactPath == "artifact.json"

\* values of the variables an operation's run does not use
Idle == [none |-> TRUE]

InitBytecode ==
    /\ fn = "read_bytecode"
    /\ \/ arg \in {Unreadable, BadJson}
       \/ \E b \in JsonMembers, d \in JsonMembers : arg = Artifact(b, d)
    /\ ret = Pending
    /\ force = FALSE
    /\ keccak = Idle
    /\ config = Idle
    /\ pc = "idle"
    /\ dotrains = <<>>
    /\ metas = <<>>
    /\ deployers = <<>>
    /\ store = None
    /\ result = Pending

ReadBytecode ==
    /\ fn = "read_bytecode"
    /\ ret = Pending
    /\ ret' = read_bytecode(ArtifactPath, arg)
    /\ UNCHANGED <<fn, arg, force, keccak, config, pc, dotrains, metas, deployers, store, result>>

NextBytecode == ReadBytecode

SpecBytecode == InitBytecode /\ [][NextBytecode]_vars

---------------------------------------------------------------------------
(* Inputs of the deployer assembler *)

Text0a == <<Ch0, ChA>>
Text0x0a == <<Ch0, ChX, Ch0, ChA>>
Texta0 == <<ChA, Ch0>>
Text0xa0 == <<Ch0, ChX, ChA, Ch0>>
Text0xa == <<Ch0, ChX, ChA>>

MetaEntries ==
    {Binary(Unreadable), Binary(FileBytes(<<10>>)), Binary(FileBytes(<<160>>)),
     Hex(Unreadable), Hex(FileBytes(Text0x0a)), Hex(FileBytes(Texta0)),
     Hex(FileBytes(Text0xa)), Hex(FileBytes(<<160>>))}

\* creation bytecode 0x0a, deployed bytecode 0xa0, each present or not
SampleArtifacts ==
    {Unreadable} \cup {Artifact(b, d) : b \in {Missing, Str(Text0a)}, d \in {Missing, Str(Text0xa0)}}

\* keys of the deployers map: two that decode, one that does not
DeployerKeys == {Text0x0a, Texta0, <<ChX>>}

DeployerConfigs ==
    [construction_meta : MetaEntries, expression_deployer : SampleArtifacts,
     parser : SampleArtifacts, store : SampleArtifacts, interpreter : SampleArtifacts]

InitDeployer ==
    /\ fn = "read_deployer"
    /\ arg \in [hash : DeployerKeys, deployer : DeployerConfigs]
    /\ ret = Pending
    /\ force = FALSE
    /\ keccak \in KeccakFns
    /\ config = Idle
    /\ pc = "idle"
    /\ dotrains = <<>>
    /\ metas = <<>>
    /\ deployers = <<>>
    /\ store = None
    /\ result = Pending

ReadDeployer ==
    /\ fn = "read_deployer"
    /\ ret = Pending
    /\ ret' = read_deployer(keccak, arg.hash, arg.deployer)
    /\ UNCHANGED <<fn, arg, force, keccak, config, pc, dotrains, metas, deployers, store, result>>

NextDeployer == ReadDeployer

SpecDeployer == InitDeployer /\ [][NextDeployer]_vars

---------------------------------------------------------------------------
(* Inputs of the directory scanner *)

Leaves ==
    {EntryErr, Other, DirUnopenable, File("rain", TRUE, TRUE), File("rain", FALSE, TRUE),
     File("txt", TRUE, TRUE), File("", TRUE, TRUE)}

RECURSIVE ForestsOfSize(_), EntriesOfSize(_)

\* the entries that hold k directory entries, themselves included
EntriesOfSize(k) ==
    (IF k = 1 THEN Leaves ELSE {}) \cup {Dir(f) : f \in ForestsOfSize(k - 1)}

\* the entry lists that hold n directory entries in all
ForestsOfSize(n) ==
    IF n = 0 THEN {<<>>}
    ELSE UNION {{<<e>> \o r : e \in EntriesOfSize(k), r \in ForestsOfSize(n - k)} : k \in 1..n}

\* arg is an entry list of at most MaxNodes entries in all: the listing of the
\* scanned directory, or the paths self.include names (each a directory, a file
\* or something else)
InitScan ==
    /\ fn \in {"read_dotrain_files", "read_included_files"}
    /\ \/ arg = <<>>
       \/ \E n \in 1..MaxNodes : \E k \in 1..n :
            \E e \in EntriesOfSize(k), r \in ForestsOfSize(n - k) : arg = <<e>> \o r
    /\ fn = "read_included_files" => \A i \in 1..Len(arg) : arg[i].kind # "err"
    /\ ret = Pending
    /\ force \in BOOLEAN
    /\ keccak = Idle
    /\ config = Idle
    /\ pc = "idle"
    /\ dotrains = <<>>
    /\ metas = <<>>
    /\ deployers = <<>>
    /\ store = None
    /\ result = Pending

\* read_dotrain_files on a directory that opens and lists the entries arg
ReadDotrainFiles ==
    /\ fn = "read_dotrain_files"
    /\ ret = Pending
    /\ ret' = read_dotrain_files(<<1>>, Dir(arg), force)
    /\ UNCHANGED <<fn, arg, force, keccak, config, pc, dotrains, metas, deployers, store, result>>

\* read_included_files on the include list arg
ReadIncludedFiles ==
    /\ fn = "read_included_files"
    /\ ret = Pending
    /\ ret' = read_included_files(arg, force)
    /\ UNCHANGED <<fn, arg, force, keccak, config, pc, dotrains, metas, deployers, store, result>>

NextScan == ReadDotrainFiles \/ ReadIncludedFiles

SpecScan == InitScan /\ [][NextScan]_vars

---------------------------------------------------------------------------
(* process, build_store and force_build_store *)

\* the flag each builder hands to process()
ProcessFlag(builder) == IF builder = "build_store" THEN TRUE ELSE FALSE

\* the calls this module makes on the Store, in the order made
AddSubgraphs(sgs) == [call |-> "add_subgraphs", subgraphs |-> sgs]
UpdateWith(hash, bytes) == [call |-> "update_with", hash |-> hash, bytes |-> bytes]
SetDotrain(text, uri) == [call |-> "set_dotrain", text |-> text, uri |-> uri, keep_old |-> TRUE]
SetDeployer(d) == [call |-> "set_deployer_from_query_response", deployer |-> d]

StoreCreated == IsSome(store)
Calls == IF StoreCreated THEN store[1] ELSE <<>>

UriErr == [msg |-> "could not derive a valid utf-8 encoded URI from path"]

\* mutant of Pop: the vector is emptied from its front
PopFront(v) == [item |-> v[1], rest |-> SubSeq(v, 2, Len(v))]

\* deployers.pop(): the element taken and the vector left
Pop(v) == [item |-> v[Len(v)], rest |-> SubSeq(v, 1, Len(v) - 1)]

Items == Len(config.include) + Len(config.meta) + Len(config.deployers)

\* directories a rainconfig of the model includes
RainOk == File("rain", TRUE, TRUE)
MainDirs ==
    {Dir(<<RainOk, File("txt", TRUE, TRUE)>>),
     Dir(<<File("rain", FALSE, TRUE), RainOk>>),
     Dir(<<File("rain", TRUE, FALSE), RainOk>>),
     DirUnopenable}

RECURSIVE ListsUpTo(_, _)
ListsUpTo(S, n) ==
    IF n = 0 THEN {<<>>}
    ELSE LET shorter == ListsUpTo(S, n - 1)
         IN  shorter \cup {Append(l, x) : l \in {t \in shorter : Len(t) = n - 1}, x \in S}

MainMetaEntries ==
    {Binary(Unreadable), Binary(FileBytes(<<10>>)), Hex(FileBytes(Texta0)), Hex(FileBytes(Text0xa))}

ArtBoth == Artifact(Str(Text0a), Str(Text0xa0))
ArtDeployedOnly == Artifact(Missing, Str(Text0xa0))

MainDeployerConfigs ==
    [construction_meta : {Binary(FileBytes(<<10>>)), Binary(Unreadable)},
     expression_deployer : {ArtBoth}, parser : {ArtBoth, ArtDeployedOnly},
     store : {ArtBoth}, interpreter : {ArtBoth}]

MainKeys == {Text0x0a, Texta0}

SubgraphLists == {<<>>, <<"https://subgraph">>}

Init ==
    /\ fn \in {"build_store", "force_build_store"}
    /\ arg = Idle
    /\ ret = Pending
    /\ force = ProcessFlag(fn)
    /\ keccak \in KeccakFns
    /\ config = [include |-> <<>>, subgraphs |-> <<>>, meta |-> <<>>, deployers |-> <<>>]
    /\ pc = "include"
    /\ dotrains = <<>>
    /\ metas = <<>>
    /\ deployers = <<>>
    /\ store = None
    /\ result = Pending

\* process() returns early with the error e: the builder's ? hands it to the caller
Abort(e) ==
    /\ pc' = "done"
    /\ result' = Err(e)

\* process: match self.read_included_files(force)
ReadIncluded ==
    /\ pc = "include"
    /\ \E inc \in ListsUpTo(MainDirs, MaxItems) :
         \E r \in {read_included_files(inc, force)} :
             /\ config' = [config EXCEPT !.include = inc]
             /\ IF r.ok
                THEN /\ dotrains' = dotrains \o r.val
                     /\ pc' = "meta"
                     /\ UNCHANGED result
                ELSE IF ~force
                THEN /\ Abort(r.err)
                     /\ UNCHANGED dotrains
                ELSE /\ pc' = "meta"
                     /\ UNCHANGED <<dotrains, result>>
    /\ UNCHANGED <<fn, arg, ret, force, keccak, metas, deployers, store>>

\* process: one turn of `for m in all_metas { read_meta(m, &mut metas, force)?; }`
ReadMeta ==
    /\ pc = "meta"
    /\ Items < MaxItems
    /\ \E m \in MainMetaEntries :
         \E r \in {read_meta(keccak, m, metas, force)} :
             /\ config' = [config EXCEPT !.meta = Append(@, m)]
             /\ IF r.res.ok
                THEN /\ metas' = r.metas
                     /\ UNCHANGED <<pc, result>>
                ELSE /\ Abort(r.res.err)
                     /\ UNCHANGED metas
    /\ UNCHANGED <<fn, arg, ret, force, keccak, dotrains, deployers, store>>

\* process: all_metas is exhausted
EndMetas ==
    /\ pc = "meta"
    /\ pc' = "deployers"
    /\ UNCHANGED <<fn, arg, ret, force, keccak, config, dotrains, metas, deployers, store, result>>

\* process: one turn of `for (hash, deployer) in deployers`; the keys of a map differ
ReadDeployerEntry ==
    /\ pc = "deployers"
    /\ Items < MaxItems
    /\ \E hash \in MainKeys, d \in MainDeployerConfigs :
         /\ \A i \in 1..Len(config.deployers) : config.deployers[i].hash # hash
         /\ \E r \in {read_deployer(keccak, hash, d)} :
                /\ config' = [config EXCEPT !.deployers = Append(@, [hash |-> hash, deployer |-> d])]
                /\ IF r.ok
                   THEN /\ deployers' = Append(deployers, r.val)
                        /\ UNCHANGED <<pc, result>>
                   ELSE IF ~force
                   THEN /\ Abort(r.err)
                        /\ UNCHANGED deployers
                   ELSE UNCHANGED <<pc, result, deployers>>
    /\ UNCHANGED <<fn, arg, ret, force, keccak, dotrains, metas, store>>

\* process returns Ok(ProcessType(..)); Store::default(); store.add_subgraphs(subgraphs)
CreateStore ==
    /\ pc = "deployers"
    /\ \E sgs \in SubgraphLists :
         /\ config' = [config EXCEPT !.subgraphs = sgs]
         /\ store' = Some(<<AddSubgraphs(sgs)>>)
    /\ pc' = "metas"
    /\ UNCHANGED <<fn, arg, ret, force, keccak, dotrains, metas, deployers, result>>

\* one turn of `for (hash, bytes) in metas { store.update_with(&hex::decode(&hash)?, &bytes); }`
InsertMeta ==
    /\ pc = "metas"
    /\ metas # <<>>
    /\ \E key \in {HexDecode(Head(metas)[1])} :
           IF key.ok
           THEN /\ store' = Some(Append(store[1], UpdateWith(key.val, Head(metas)[2])))
                /\ metas' = Tail(metas)
                /\ UNCHANGED <<pc, result>>
           ELSE /\ Abort(key.err)
                /\ UNCHANGED <<store, metas>>
    /\ UNCHANGED <<fn, arg, ret, force, keccak, config, dotrains, deployers>>

EndInsertMetas ==
    /\ pc = "metas"
    /\ metas = <<>>
    /\ pc' = "dotrains"
    /\ UNCHANGED <<fn, arg, ret, force, keccak, config, dotrains, metas, deployers, store, result>>

\* one turn of `for (path, text) in dotrains`: build_store returns an error on a path
\* without a text form, force_build_store goes on to the next file
RegisterDotrain ==
    /\ pc = "dotrains"
    /\ dotrains # <<>>
    /\ \E d \in {Head(dotrains)} :
           IF d.utf8
           THEN /\ store' = Some(Append(store[1], SetDotrain(d.text, d.path)))
                /\ dotrains' = Tail(dotrains)
                /\ UNCHANGED <<pc, result>>
           ELSE IF fn = "build_store"
           THEN /\ Abort(UriErr)
                /\ UNCHANGED <<store, dotrains>>
           ELSE /\ dotrains' = Tail(dotrains)
                /\ UNCHANGED <<store, pc, result>>
    /\ UNCHANGED <<fn, arg, ret, force, keccak, config, metas, deployers>>

EndRegisterDotrains ==
    /\ pc = "dotrains"
    /\ dotrains = <<>>
    /\ pc' = "set_deployers"
    /\ UNCHANGED <<fn, arg, ret, force, keccak, config, dotrains, metas, deployers, store, result>>

\* one turn of `while let Some(deployer) = deployers.pop()`
InsertDeployer ==
    /\ pc = "set_deployers"
    /\ deployers # <<>>
    /\ store' = Some(Append(store[1], SetDeployer(Pop(deployers).item)))
    /\ deployers' = Pop(deployers).rest
    /\ UNCHANGED <<fn, arg, ret, force, keccak, config, pc, dotrains, metas, result>>

\* Ok(Arc::new(RwLock::new(store)))
Finish ==
    /\ pc = "set_deployers"
    /\ deployers = <<>>
    /\ pc' = "done"
    /\ result' = Ok("store")
    /\ UNCHANGED <<fn, arg, ret, force, keccak, config, dotrains, metas, deployers, store>>

Next ==
    \/ ReadIncluded
    \/ ReadMeta
    \/ EndMetas
    \/ ReadDeployerEntry
    \/ CreateStore
    \/ InsertMeta
    \/ EndInsertMetas
    \/ RegisterDotrain
    \/ EndRegisterDotrains
    \/ InsertDeployer
    \/ Finish

Spec == Init /\ [][Next]_vars

---------------------------------------------------------------------------
(* What the claims speak of *)

Returned(r) == r.ok \/ r.err.msg # "pending"

Reverse(s) == [i \in 1..Len(s) |-> s[Len(s) + 1 - i]]
Range(s) == {s[i] : i \in 1..Len(s)}

\* a meta entry whose file can be read and, for a hex entry, decoded
LoadsOk(m) ==
    /\ m.file.file = "bytes"
    /\ m.type = "hex" => (IsUtf8(m.file.data) /\ HexDecode(m.file.data).ok)

\* the bytes a loadable meta entry stands for
MetaBytes(m) == IF m.type = "binary" THEN m.file.data ELSE HexDecode(m.file.data).val

\* a directory that cannot be opened, or whose listing yields a failed entry
FailingDir(n) == ~n.open \/ \E i \in 1..Len(n.entries) : n.entries[i].kind = "err"

RECURSIVE ExpectedUnder(_, _)

\* the readable .rain files under n (found at path) that lie in no failing directory
ExpectedUnder(path, n) ==
    IF n.kind = "file"
    THEN IF n.ext = "rain" /\ n.readable THEN {Dotrain(path, n)} ELSE {}
    ELSE IF n.kind = "dir" /\ ~FailingDir(n)
    THEN UNION {ExpectedUnder(Append(path, i), n.entries[i]) : i \in 1..Len(n.entries)}
    ELSE {}

\* the same for the roots of an include list; a root that is no directory fails
ExpectedIncluded(include) ==
    UNION {IF include[i].kind = "dir" THEN ExpectedUnder(<<i>>, include[i]) ELSE {} :
           i \in 1..Len(include)}

NoDuplicates(s) == Cardinality(Range(s)) = Len(s)

\* an artifact that read_bytecode reads and that carries deployed bytecode
CarriesDeployed(a) ==
    /\ read_bytecode("artifact", a).ok
    /\ IsSome(read_bytecode("artifact", a).val[2])

\* the decode errors of the string members of a that do not decode
FieldErrs(a) ==
    {HexDecode(f.s).err : f \in {x \in {a.bytecode, a.deployedBytecode} :
                                   is_string(x) /\ ~HexDecode(x.s).ok}}

CarriesDecodeError(r, errs) ==
    /\ ~r.ok
    /\ r.err.msg = "at"
    /\ r.err.path = ArtifactPath
    /\ r.err.cause \in errs

---------------------------------------------------------------------------
(* read_bytecode *)

\* C5: read_bytecode follows the four-way presence policy: only a deployed string
\* gives (None, Some(decoded)); only a creation string gives (Some(decoded), None);
\* neither gives an error; both give both decoded values; and a string that does
\* not decode gives an error carrying that member's decode error and the path.
C5_FourWayPolicy ==
    (fn = "read_bytecode" /\ Returned(ret) /\ arg.file = "json") =>
        /\ (~is_string(arg.bytecode) /\ ~is_string(arg.deployedBytecode)) =>
               (~ret.ok /\ ret.err = NoBytecodeErr(ArtifactPath))
        /\ (~is_string(arg.bytecode) /\ is_string(arg.deployedBytecode)) =>
               IF HexDecode(arg.deployedBytecode.s).ok
               THEN ret = Ok(<<None, Some(HexDecode(arg.deployedBytecode.s).val)>>)
               ELSE CarriesDecodeError(ret, FieldErrs(arg))
        /\ (is_string(arg.bytecode) /\ ~is_string(arg.deployedBytecode)) =>
               IF HexDecode(arg.bytecode.s).ok
               THEN ret = Ok(<<Some(HexDecode(arg.bytecode.s).val), None>>)
               ELSE CarriesDecodeError(ret, FieldErrs(arg))
        /\ (is_string(arg.bytecode) /\ is_string(arg.deployedBytecode)) =>
               IF HexDecode(arg.bytecode.s).ok /\ HexDecode(arg.deployedBytecode.s).ok
               THEN ret = Ok(<<Some(HexDecode(arg.bytecode.s).val),
                               Some(HexDecode(arg.deployedBytecode.s).val)>>)
               ELSE CarriesDecodeError(ret, FieldErrs(arg))

\* both members are strings, the creation one does not decode, the deployed one
\* does, and read_bytecode has returned
C5_Witness ==
    /\ fn = "read_bytecode"
    /\ Returned(ret)
    /\ arg.file = "json"
    /\ is_string(arg.bytecode)
    /\ is_string(arg.deployedBytecode)
    /\ ~HexDecode(arg.bytecode.s).ok
    /\ HexDecode(arg.deployedBytecode.s).ok
    /\ Len(HexDecode(arg.deployedBytecode.s).val) > 0

---------------------------------------------------------------------------
(* read_deployer *)

\* the steps of read_deployer other than the three auxiliary artifacts succeed
OtherStepsOk ==
    /\ LoadsOk(arg.deployer.construction_meta)
    /\ read_bytecode("expression_deployer", arg.deployer.expression_deployer).ok
    /\ IsSome(read_bytecode("expression_deployer", arg.deployer.expression_deployer).val[1])
    /\ IsSome(read_bytecode("expression_deployer", arg.deployer.expression_deployer).val[2])
    /\ HexDecode(arg.hash).ok

\* C6: the parser, store and interpreter artifacts need only deployed bytecode:
\* read_deployer accepts them whenever each carries deployed bytecode, with or
\* without creation bytecode, and fails only when one of them lacks it.
C6_AuxNeedOnlyDeployed ==
    (fn = "read_deployer" /\ Returned(ret) /\ OtherStepsOk) =>
        (ret.ok <=> /\ CarriesDeployed(arg.deployer.parser)
                    /\ CarriesDeployed(arg.deployer.store)
                    /\ CarriesDeployed(arg.deployer.interpreter))

\* C7: in every record read_deployer produces, bytecode, parser, store and
\* interpreter are the deployed bytecode of their artifacts, never the creation
\* bytecode.
C7_RecordHoldsDeployed ==
    (fn = "read_deployer" /\ Returned(ret) /\ ret.ok) =>
        /\ Some(ret.val.bytecode) =
               read_bytecode("expression_deployer", arg.deployer.expression_deployer).val[2]
        /\ Some(ret.val.parser) = read_bytecode("parser", arg.deployer.parser).val[2]
        /\ Some(ret.val.store) = read_bytecode("store", arg.deployer.store).val[2]
        /\ Some(ret.val.interpreter) =
               read_bytecode("interpreter", arg.deployer.interpreter).val[2]

---------------------------------------------------------------------------
(* read_dotrain_files *)

\* C8: under force, read_dotrain_files and read_included_files return exactly the
\* readable .rain files, at any depth, that lie in no failing directory, each once:
\* a failure drops the failing file or the failing directory's subtree only, and
\* with no failure the result is every .rain file and no other file.  A directory
\* fails when it cannot be opened or its listing yields a failed entry; the
\* scanned directory itself failing is an Err of read_dotrain_files.
C8_LenientScanExact ==
    (fn \in {"read_dotrain_files", "read_included_files"} /\ force /\ Returned(ret)) =>
        IF fn = "read_dotrain_files"
        THEN IF FailingDir(Dir(arg)) THEN ~ret.ok
             ELSE /\ ret.ok
                  /\ Range(ret.val) = ExpectedUnder(<<1>>, Dir(arg))
                  /\ NoDuplicates(ret.val)
        ELSE /\ ret.ok
             /\ Range(ret.val) = ExpectedIncluded(arg)
             /\ NoDuplicates(ret.val)

\* a forced scan returned a file of a subdirectory although a sibling directory
\* listed before it failed and a sibling .rain file could not be read
C8_Witness ==
    /\ fn = "read_dotrain_files"
    /\ force
    /\ Returned(ret)
    /\ ret.ok
    /\ \E i, j \in 1..Len(arg) :
         /\ i < j
         /\ arg[i].kind = "dir"
         /\ FailingDir(arg[i])
         /\ \E d \in Range(ret.val) : Len(d.path) = 3 /\ d.path[2] = j
    /\ \E i \in 1..Len(arg) : arg[i] = File("rain", FALSE, TRUE)

---------------------------------------------------------------------------
(* build_store and force_build_store *)

Building == fn \in {"build_store", "force_build_store"}

RECURSIVE AssembledFrom(_, _, _)

\* the records read_deployer returns for the entries i.. of a deployers list
AssembledFrom(h, entries, i) ==
    IF i > Len(entries) THEN <<>>
    ELSE (IF read_deployer(h, entries[i].hash, entries[i].deployer).ok
          THEN <<read_deployer(h, entries[i].hash, entries[i].deployer).val>>
          ELSE <<>>) \o AssembledFrom(h, entries, i + 1)

\* the payloads of the meta entries that load, in the order of the list
LoadedBytes(ms) == [i \in 1..Len(SelectSeq(ms, LoadsOk)) |-> MetaBytes(SelectSeq(ms, LoadsOk)[i])]

\* the files the scan of this run hands to the builder
Scanned ==
    IF read_included_files(config.include, force).ok
    THEN read_included_files(config.include, force).val
    ELSE <<>>

HasUtf8Path(d) == d.utf8
IsUpdateWith(c) == c.call = "update_with"
IsSetDotrain(c) == c.call = "set_dotrain"
IsSetDeployer(c) == c.call = "set_deployer_from_query_response"

MetaCalls == SelectSeq(Calls, IsUpdateWith)
DotrainCalls == SelectSeq(Calls, IsSetDotrain)
DeployerCalls == SelectSeq(Calls, IsSetDeployer)

\* some read of the configuration fails: a directory or file of the scan, a meta
\* entry, or read_deployer on a deployer entry
SomeStepFails ==
    \/ ~read_included_files(config.include, FALSE).ok
    \/ \E i \in 1..Len(config.meta) : ~LoadsOk(config.meta[i])
    \/ \E i \in 1..Len(config.deployers) :
         ~read_deployer(keccak, config.deployers[i].hash, config.deployers[i].deployer).ok

\* C1: build_store is strict: when any step of scanning, meta loading or deployer
\* assembly fails it returns an error and no store.
C1_StrictBuildFails ==
    (fn = "build_store" /\ pc = "done" /\ SomeStepFails) => ~result.ok

\* C2: force_build_store always succeeds, and its store holds exactly the items
\* that are not erroneous: every loadable meta, every readable .rain file with a
\* text path, every deployer that read_deployer assembles.
C2_LenientBuildKeepsValid ==
    (fn = "force_build_store" /\ pc = "done") =>
        /\ result.ok
        /\ {c.bytes : c \in Range(MetaCalls)} = Range(LoadedBytes(config.meta))
        /\ {c.uri : c \in Range(DotrainCalls)} =
               {d.path : d \in {x \in ExpectedIncluded(config.include) : x.utf8}}
        /\ {c.deployer : c \in Range(DeployerCalls)} =
               Range(AssembledFrom(keccak, config.deployers, 1))

\* C3: when a scanned file's path has no text form, build_store returns an error,
\* and force_build_store succeeds having registered every other scanned file
\* under its path.
C3_NonUtf8Path ==
    (Building /\ pc = "done" /\ StoreCreated /\ \E d \in Range(Scanned) : ~d.utf8) =>
        /\ fn = "build_store" => ~result.ok
        /\ fn = "force_build_store" =>
               /\ result.ok
               /\ [i \in 1..Len(DotrainCalls) |-> DotrainCalls[i].uri] =
                      [i \in 1..Len(SelectSeq(Scanned, HasUtf8Path)) |->
                          SelectSeq(Scanned, HasUtf8Path)[i].path]

\* the deployer records this run holds: assembled and waiting, or in the store
Records == Range(deployers) \cup {c.deployer : c \in Range(DeployerCalls)}

\* C4: whichever builder runs, a deployer whose construction meta does not load
\* makes read_deployer fail, and no record of it is ever held or stored; every
\* record held is complete, with the meta of its own entry.
C4_ConstructionMetaStrict ==
    Building =>
        /\ \A i \in 1..Len(config.deployers) :
             ~LoadsOk(config.deployers[i].deployer.construction_meta) =>
                 /\ ~read_deployer(keccak, config.deployers[i].hash,
                                   config.deployers[i].deployer).ok
                 /\ \A r \in Records : r.tx_hash # HexDecode(config.deployers[i].hash).val
        /\ \A r \in Records : \E i \in 1..Len(config.deployers) :
             /\ r.tx_hash = HexDecode(config.deployers[i].hash).val
             /\ LoadsOk(config.deployers[i].deployer.construction_meta)
             /\ r.meta_bytes = MetaBytes(config.deployers[i].deployer.construction_meta)
             /\ r.meta_hash = keccak[r.meta_bytes]

\* a build has ended with a store that holds one deployer's record, while another
\* deployer of the configuration had construction meta that does not load
C4_Witness ==
    /\ Building
    /\ pc = "done"
    /\ result.ok
    /\ DeployerCalls # <<>>
    /\ \E i \in 1..Len(config.deployers) :
         ~LoadsOk(config.deployers[i].deployer.construction_meta)

\* C9: in a build that got as far as its store, the insertion of the loaded metas
\* never fails the build (only a path without a text form can), and every loaded
\* meta is inserted under keccak256 of its bytes, the key read_meta computed.
C9_MetaInsertedUnderHash ==
    (Building /\ pc = "done" /\ StoreCreated) =>
        /\ ~result.ok => result.err.msg = UriErr.msg
        /\ [i \in 1..Len(MetaCalls) |-> <<MetaCalls[i].hash, MetaCalls[i].bytes>>] =
               [i \in 1..Len(LoadedBytes(config.meta)) |->
                   <<keccak[LoadedBytes(config.meta)[i]], LoadedBytes(config.meta)[i]>>]

Stage(c) ==
    CASE c.call = "add_subgraphs" -> 1
      [] c.call = "update_with" -> 2
      [] c.call = "set_dotrain" -> 3
      [] c.call = "set_deployer_from_query_response" -> 4

============================================================================
